---- MODULE Spec2Model ----
(***************************************************************************)
(* The authentication state machine of the AT Protocol OAuth demo app:     *)
(* the two SQLite-backed key/value stores of src/src/auth.ts, the request  *)
(* handlers of src/src/index.ts, and the cookie held by the browser.       *)
(***************************************************************************)
EXTENDS Integers, Sequences, FiniteSets, Bags, TLC

VARIABLES
    auth_state,     \* table auth_state: a set of rows [key, state]
    auth_session,   \* table auth_session: a set of rows [key, session]
    jar,            \* the browser's "sid" cookie
    inflight,       \* the requests being handled: a bag of request records
    resp,           \* the response the latest step sent (Idle: none), with its request
    nextFlow,       \* how many flow identifiers authorize has generated
    consumed,       \* history: flow identifiers whose record a callback deleted
    completed,      \* history: subjects with a completed callback since the last restart
    lastSet,        \* history: per subject, the value of the latest SessionStore.set
    log,            \* the last three store calls of the store harness
    lost,           \* history: flow identifiers whose record a restart dropped
    cookieSecret,   \* the length of the password that seals the cookie
    listening       \* main() has run and the server takes requests

vars == <<auth_state, auth_session, jar, inflight, resp, nextFlow, consumed, completed, lastSet, log,
          lost, cookieSecret, listening>>

----------------------------------------------------------------------------
(* Bounds *)

\* Number of authorization attempts (flow identifiers) authorize may start.
MaxFlows == 2

\* Number of requests the server handles concurrently.
MaxInFlight == 2

----------------------------------------------------------------------------
(* JavaScript values *)

\* JavaScript's undefined, as read from a missing property.
Undefined == "undefined"

\* obj[f] in JavaScript: a property that is not there reads as undefined.
Prop(obj, f) == IF f \in DOMAIN obj THEN obj[f] ELSE Undefined

\* Two objects a reader cannot tell apart by reading properties.
SameObj(a, b) == \A f \in (DOMAIN a) \cup (DOMAIN b) : Prop(a, f) = Prop(b, f)

\* JSON.stringify drops the properties whose value is undefined and emits
\* the others; the text is modelled as the set of its "name": value members.
JSONstringify(val) == {<<f, val[f]>> : f \in {g \in DOMAIN val : val[g] # Undefined}}

\* JSON.parse builds the object holding exactly the members of the text.
JSONparse(text) ==
    [f \in {m[1] : m \in text} |-> (CHOOSE m \in text : m[1] = f)[2]]

----------------------------------------------------------------------------
(* The tables (migration "001"): key is the primary key of both. *)

\* Primary key constraint: no two rows of a table share a key.
PrimaryKey(table) == \A r1, r2 \in table : r1.key = r2.key => r1 = r2

\* SELECT * FROM table WHERE key = k
WhereKey(table, k) == {r \in table : r.key = k}

\* executeTakeFirst(): the first row of the result, or undefined (no row).
ExecuteTakeFirst(rows) == IF rows = {} THEN {} ELSE {CHOOSE r \in rows : TRUE}

\* INSERT INTO table VALUES row, with no ON CONFLICT clause: a row with the
\* same primary key makes the statement fail and leaves the table as it was.
InsertInto(table, row) ==
    IF WhereKey(table, row.key) # {}
    THEN [table |-> table, error |-> "SQLITE_CONSTRAINT_PRIMARYKEY"]
    ELSE [table |-> table \cup {row}, error |-> "none"]

\* INSERT INTO table VALUES row ON CONFLICT DO UPDATE SET col = row.col:
\* the row with the same key is updated in place, otherwise row is inserted.
\* The only other column is the one being set, so the updated row is row.
InsertOnConflictDoUpdate(table, row) ==
    IF WhereKey(table, row.key) # {}
    THEN [table |-> {IF r.key = row.key THEN row ELSE r : r \in table},
          error |-> "none"]
    ELSE [table |-> table \cup {row}, error |-> "none"]

\* DELETE FROM table WHERE key = k
DeleteFrom(table, k) == [table |-> table \ WhereKey(table, k), error |-> "none"]

\* The result of a get: found says whether a value is returned, val is it.
NoValue == [found |-> FALSE, val |-> <<>>, error |-> "none"]
Value(v) == [found |-> TRUE, val |-> v, error |-> "none"]
Thrown(e) == [found |-> FALSE, val |-> <<>>, error |-> e]

----------------------------------------------------------------------------
(* StateStore and SessionStore (src/src/auth.ts) *)

StateStore_get(table, key) ==
    LET result == ExecuteTakeFirst(WhereKey(table, key))
    IN  IF result = {} THEN NoValue
        ELSE Value(JSONparse((CHOOSE r \in result : TRUE).state))

StateStore_set_NoConflictClause(table, key, val) ==
    InsertInto(table, [key |-> key, state |-> JSONstringify(val)])

StateStore_set_NoExecute(table, key, val) == [table |-> table, error |-> "none"]

StateStore_set(table, key, val) ==
    LET state == JSONstringify(val)
    IN  InsertOnConflictDoUpdate(table, [key |-> key, state |-> state])

StateStore_del_NoExecute(table, key) == [table |-> table, error |-> "none"]

StateStore_del(table, key) == DeleteFrom(table, key)

SessionStore_get_NoCheck(table, key) ==
    LET result == ExecuteTakeFirst(WhereKey(table, key))
    IN  IF result = {} THEN Thrown("TypeError")
        ELSE Value(JSONparse((CHOOSE r \in result : TRUE).session))

SessionStore_get(table, key) ==
    LET result == ExecuteTakeFirst(WhereKey(table, key))
    IN  IF result = {} THEN NoValue
        ELSE Value(JSONparse((CHOOSE r \in result : TRUE).session))

SessionStore_set_NoConflictClause(table, key, val) ==
    InsertInto(table, [key |-> key, session |-> JSONstringify(val)])

SessionStore_set_NoExecute(table, key, val) == [table |-> table, error |-> "none"]

SessionStore_set_ReplaceAll(table, key, val) ==
    [table |-> {[key |-> key, session |-> JSONstringify(val)]}, error |-> "none"]

SessionStore_set(table, key, val) ==
    LET session == JSONstringify(val)
    IN  InsertOnConflictDoUpdate(table, [key |-> key, session |-> session])

SessionStore_del_AllRows(table, key) == [table |-> {}, error |-> "none"]

SessionStore_del(table, key) == DeleteFrom(table, key)

----------------------------------------------------------------------------
(* Values the stores hold *)

\* NodeSavedState: the flow context authorize saves under the state
\* parameter. appState is optional; POST /login passes none.
SavedState(verifier, appState) ==
    [iss |-> "pds", verifier |-> verifier, appState |-> appState]

\* NodeSavedSession: the credential of subject sub.
SavedSession(sub, token) == [sub |-> sub, token |-> token]

----------------------------------------------------------------------------
(* Store harness: a caller applying get, set and del to both stores *)

Keys == {"k1", "k2"}
StateVals == {SavedState("v1", Undefined), SavedState("v2", "app")}
SessionVals == {SavedSession("d1", "t1"), SavedSession("d1", "t2")}

\* A call of the harness: io says whether the database answered the
\* statement ("ok") or failed with an I/O error.
NoCall == [store |-> "none", op |-> "none", key |-> "none", val |-> <<>>,
           found |-> FALSE, ret |-> <<>>, error |-> "none", io |-> "ok"]

Call(store, op, key, val, res) ==
    [store |-> store, op |-> op, key |-> key, val |-> val,
     found |-> res.found, ret |-> res.val, error |-> res.error, io |-> "ok"]

\* await ....executeTakeFirst() in get, which has no try/catch: when the
\* database fails, the promise rejects and get rejects with its error.
ExecuteOn_Caught(io, res) == IF io = "ok" THEN res ELSE NoValue

ExecuteOn(io, res) == IF io = "ok" THEN res ELSE Thrown(io)

Shift(call) == <<log[2], log[3], call>>

TableOf(store) == IF store = "auth_state" THEN auth_state ELSE auth_session

Frame ==
    UNCHANGED <<jar, inflight, resp, nextFlow, consumed, completed, lastSet, lost, cookieSecret, listening>>

CallStateGet(k) ==
    /\ log' = Shift(Call("auth_state", "get", k, <<>>, StateStore_get(auth_state, k)))
    /\ UNCHANGED <<auth_state, auth_session>>
    /\ Frame

CallStateSet(k, v) ==
    LET r == StateStore_set(auth_state, k, v)
    IN  /\ auth_state' = r.table
        /\ log' = Shift(Call("auth_state", "set", k, v, Thrown(r.error)))
        /\ UNCHANGED auth_session
        /\ Frame

CallStateDel(k) ==
    LET r == StateStore_del(auth_state, k)
    IN  /\ auth_state' = r.table
        /\ log' = Shift(Call("auth_state", "del", k, <<>>, Thrown(r.error)))
        /\ UNCHANGED auth_session
        /\ Frame

CallSessionGet(k) ==
    /\ log' = Shift(Call("auth_session", "get", k, <<>>, SessionStore_get(auth_session, k)))
    /\ UNCHANGED <<auth_state, auth_session>>
    /\ Frame

\* get(k) while the database fails with an I/O error.
CallStateGetFails(k) ==
    LET res == ExecuteOn("SQLITE_IOERR", StateStore_get(auth_state, k))
    IN  /\ log' = Shift([Call("auth_state", "get", k, <<>>, res) EXCEPT !.io = "SQLITE_IOERR"])
        /\ UNCHANGED <<auth_state, auth_session>>
        /\ Frame

CallSessionGetFails(k) ==
    LET res == ExecuteOn("SQLITE_IOERR", SessionStore_get(auth_session, k))
    IN  /\ log' = Shift([Call("auth_session", "get", k, <<>>, res) EXCEPT !.io = "SQLITE_IOERR"])
        /\ UNCHANGED <<auth_state, auth_session>>
        /\ Frame

CallSessionSet(k, v) ==
    LET r == SessionStore_set(auth_session, k, v)
    IN  /\ auth_session' = r.table
        /\ log' = Shift(Call("auth_session", "set", k, v, Thrown(r.error)))
        /\ UNCHANGED auth_state
        /\ Frame

CallSessionDel(k) ==
    LET r == SessionStore_del(auth_session, k)
    IN  /\ auth_session' = r.table
        /\ log' = Shift(Call("auth_session", "del", k, <<>>, Thrown(r.error)))
        /\ UNCHANGED auth_state
        /\ Frame

----------------------------------------------------------------------------
(* Cookies (iron-session) and the identity provider *)

Subjects == {"d1", "d2"}

\* The sid cookie as the browser holds it: none, a seal made by this server
\* carrying a did, or a value the server did not seal (forged, corrupted).
NoCookie == [seal |-> "none", did |-> Undefined]
Sealed(d) == [seal |-> "ok", did |-> d]
Forged(d) == [seal |-> "bad", did |-> d]

\* The state parameters and PKCE verifiers the identity client generates, in
\* the order authorize generates them, and the token the provider issues
\* for the code of each flow (consecutive flows get different tokens).
StateParam == <<"s1", "s2", "s3", "s4">>
Verifier == <<"v1", "v2", "v3", "v4">>
Token == <<"t1", "t2", "t1", "t2">>
UnknownState == "sx"
FlowIndex(state) == CHOOSE i \in 1..Len(StateParam) : StateParam[i] = state

\* An object without any field (an empty session, an empty form).
NoFields == [x \in {} |-> x]

\* req.body: undefined when no body was parsed, or the object of the
\* form's fields.
NoBody == <<>>
Body(fields) == <<fields>>

\* req.body?.f
OptField(body, f) == IF body = NoBody THEN Undefined ELSE Prop(body[1], f)

\* !v for a form field: undefined and "" are falsy.
Falsy(v) == v \in {Undefined, ""}

\* A request being handled; once answered, the response with its request.
Idle ==
    [pc |-> "idle", route |-> "none", cookie |-> NoCookie, form |-> NoBody,
     state |-> "none",
     verifier |-> Undefined, sub |-> Undefined, late |-> FALSE, live |-> FALSE,
     restore |-> "none", touched |-> FALSE, agent |-> "none", repo |-> <<>>,
     error |-> "none",
     status |-> 0, body |-> "none", message |-> "none", setCookie |-> FALSE, outCookie |-> NoCookie,
     order |-> <<>>]

Request(route, cookie) == [Idle EXCEPT !.pc = "start", !.route = route, !.cookie = cookie]

\* The server takes a new request while fewer than MaxInFlight are handled.
Accepting == listening /\ BagCardinality(inflight) < MaxInFlight

\* Request q moves on to q2 / is answered.
Step(q, q2) == (inflight (-) SetToBag({q})) (+) SetToBag({q2})
Leave(q) == inflight (-) SetToBag({q})
Handling(pc) == {q \in BagToSet(inflight) : q.pc = pc}

\* res.status(n).send(body) / res.redirect(body): the headers and the body
\* are flushed. order lists, in the order the handler made them, the
\* Set-Cookie header writes and the flush of the response.
Respond_FlushedFirst(q, status, body) ==
    [q EXCEPT !.pc = "done", !.status = status, !.body = body, !.order = <<"send">> \o @]

Respond(q, status, body) ==
    [q EXCEPT !.pc = "done", !.status = status, !.body = body, !.order = Append(@, "send")]

\* The catch of GET /oauth/callback: the exception is logged and the
\* "Login failed" page with a link to /login is sent.
LoginFailed_Redirect(q, err) == Respond([q EXCEPT !.error = err], 302, "/")

LoginFailed(q, err) == Respond([q EXCEPT !.error = err], 500, "Login failed")

\* A thrown value that is not an Error; every other thrown value is an
\* Error, modelled by its message.
NonError == "not an Error"

\* err instanceof Error ? err.message : "Unknown error"
ErrorMessage(err) == IF err # NonError THEN err ELSE "Unknown error"

\* The catch of POST /login: the page also shows the exception's message.
AuthorizeFailed_NoMessage(q, err) == Respond([q EXCEPT !.error = err], 500, "Login failed")

AuthorizeFailed(q, err) ==
    Respond([q EXCEPT !.error = err, !.message = ErrorMessage(err)], 500, "Login failed")

\* const cookieSecret = process.env.COOKIE_SECRET || "development-secret-
\* key-min-32-chars!!": strings are modelled by their length, 0 standing
\* for an unset or empty variable.
DefaultSecretLen == 37

\* iron-session accepts a password of at least 32 characters.
MinSecretLen == 32

\* COOKIE_SECRET in the environment: unset, or one character too short.
EnvSecrets == {0, MinSecretLen - 1}

CookieSecretOf(env) == IF env = 0 THEN DefaultSecretLen ELSE env

\* getIronSession rejects a password shorter than the minimum.
PasswordOk == cookieSecret >= MinSecretLen

\* An async handler whose promise rejects: the exception reaches express,
\* which answers with its 500 page or, in a version that does not await
\* handlers, never answers.
ErrorPage(q, err) == Respond([q EXCEPT !.error = err], 500, "Internal Server Error")
NoResponse(q, err) == [q EXCEPT !.pc = "done", !.error = err, !.body = "no response"]
Unhandled(q, err) == {ErrorPage(q, err), NoResponse(q, err)}

\* The browser keeps the cookie a response sets and otherwise its own.
Browser(q) == IF q.setCookie THEN q.outCookie ELSE jar

\* getSession: getIronSession unseals the request's cookie; a missing
\* cookie or a seal that does not verify gives the empty session.
getSession_NoUnseal(cookie) == [did |-> cookie.did]

getSession(cookie) ==
    IF cookie.seal = "ok" THEN [did |-> cookie.did] ELSE NoFields

\* session.did = d; await session.save(): Set-Cookie with the sealed session.
SessionSave_NotSaved(q, d) == q

SessionSave_FirstSubject(q, d) ==
    [q EXCEPT !.setCookie = TRUE, !.outCookie = Sealed("d1"), !.order = Append(@, "set-cookie")]

SessionSave(q, d) ==
    [q EXCEPT !.setCookie = TRUE, !.outCookie = Sealed(d), !.order = Append(@, "set-cookie")]

\* session.destroy(): Set-Cookie that clears the cookie.
SessionDestroy_NoOp(q) == q

SessionDestroy_OnlyIfBound(q) ==
    IF q.cookie.seal = "ok"
    THEN [q EXCEPT !.setCookie = TRUE, !.outCookie = NoCookie, !.order = Append(@, "set-cookie")]
    ELSE q

SessionDestroy(q) ==
    [q EXCEPT !.setCookie = TRUE, !.outCookie = NoCookie, !.order = Append(@, "set-cookie")]

NoSession == SavedSession(Undefined, Undefined)

----------------------------------------------------------------------------
(* POST /login *)

\* What oauthClient.authorize does in a request: it succeeds, or rejects
\* with an Error, or rejects with a value that is not an Error.
AuthorizeOutcomes == {"ok", "unreachable", "nonerror"}

\* oauthClient.authorize: resolves the handle (env says whether that
\* succeeds), saves the flow context under a fresh state parameter and
\* returns the provider's URL; or fails. Gives the table and the outcome.
Authorize(table, i, env) ==
    IF env = "unreachable" THEN [table |-> table, error |-> "AuthorizationInitiationError"]
    ELSE IF env = "nonerror" THEN [table |-> table, error |-> NonError]
    ELSE StateStore_set(table, StateParam[i], SavedState(Verifier[i], Undefined))

\* The forms a browser may post to /login: no handle field, an empty
\* handle, a handle.
LoginForms == {NoBody, Body([handle |-> ""]), Body([handle |-> "alice.test"])}

\* const handle = req.body?.handle; if (!handle)
MissingHandle_Never(form) == FALSE

MissingHandle(form) == Falsy(OptField(form, "handle"))

\* The handler up to its first await: a missing or empty handle is answered
\* 400 at once; otherwise oauthClient.authorize is called and awaited.
PostLogin(form) ==
    /\ Accepting
    /\ LET q == [Request("POST /login", jar) EXCEPT !.form = form]
       IN  IF MissingHandle(form)
           THEN /\ resp' = Respond(q, 400, "Handle is required")
                /\ UNCHANGED inflight
           ELSE /\ inflight' = inflight (+) SetToBag({[q EXCEPT !.pc = "authorize"]})
                /\ resp' = Idle
    /\ UNCHANGED <<auth_state, auth_session, jar, nextFlow, consumed, completed, lastSet, log, lost, cookieSecret, listening>>

\* oauthClient.authorize up to stateStore.set: the flow context is saved,
\* and authorize goes on to the provider; or authorize rejects, and the
\* handler's catch answers 500 with a link to /login.
LoginAuthorize(q, env) ==
    /\ q.pc = "authorize"
    /\ env = "ok" => nextFlow < MaxFlows
    /\ LET i == nextFlow + 1
           w == Authorize(auth_state, i, env)
       IN  /\ auth_state' = w.table
           /\ nextFlow' = IF env = "ok" THEN i ELSE nextFlow
           /\ IF w.error = "none"
              THEN /\ inflight' = Step(q, [q EXCEPT !.pc = "redirect", !.touched = TRUE,
                                                    !.state = StateParam[i]])
                   /\ resp' = Idle
              ELSE /\ inflight' = Leave(q)
                   /\ resp' = AuthorizeFailed([q EXCEPT !.touched = (env = "ok")], w.error)
    /\ UNCHANGED <<auth_session, jar, consumed, completed, lastSet, log, lost, cookieSecret, listening>>

\* authorize has returned the provider's URL: res.redirect(url).
LoginRedirect(q) ==
    /\ q.pc = "redirect"
    /\ inflight' = Leave(q)
    /\ resp' = Respond(q, 302, "provider")
    /\ UNCHANGED <<auth_state, auth_session, jar, nextFlow, consumed, completed, lastSet, log, lost, cookieSecret, listening>>

----------------------------------------------------------------------------
(* GET /oauth/callback *)

\* The request arrives with a state parameter, one authorize generated or
\* one it never did, and oauthClient.callback runs its first statement,
\* stateStore.get(state). No record: the callback throws (unknown or
\* consumed flow) and the handler's catch answers 500.
CallbackGet(state) ==
    /\ Accepting
    /\ state \in {UnknownState} \cup {StateParam[i] : i \in 1..nextFlow}
    /\ LET q == [Request("GET /oauth/callback", jar) EXCEPT
                    !.state = state, !.late = (state \in consumed), !.touched = TRUE]
           res == StateStore_get(auth_state, state)
       IN  IF res.found
           THEN /\ inflight' = inflight (+) SetToBag({
                      [q EXCEPT !.pc = "cb_del", !.verifier = Prop(res.val, "verifier")]})
                /\ resp' = Idle
           ELSE /\ resp' = LoginFailed(q, "UnknownOrConsumedFlow")
                /\ UNCHANGED inflight
    /\ UNCHANGED <<auth_state, auth_session, jar, nextFlow, consumed, completed, lastSet, log, lost, cookieSecret, listening>>

\* oauthClient.callback, next statement: stateStore.del(state).
CallbackDel(q) ==
    /\ q.pc = "cb_del"
    /\ LET w == StateStore_del(auth_state, q.state)
       IN  /\ auth_state' = w.table
           /\ consumed' = consumed \cup {q.state}
           /\ IF w.error = "none"
              THEN /\ inflight' = Step(q, [q EXCEPT !.pc = "cb_exchange"])
                   /\ resp' = Idle
              ELSE /\ inflight' = Leave(q)
                   /\ resp' = LoginFailed(q, w.error)
    /\ UNCHANGED <<auth_session, jar, nextFlow, completed, lastSet, log, lost, cookieSecret, listening>>

\* oauthClient.callback, the rest: the provider's response is validated
\* against the flow context and the code exchanged, which can succeed only
\* with the verifier authorize saved; the provider names the subject d, and
\* sessionStore.set(d, session) saves the credential. A failure is thrown
\* and the handler's catch answers 500.
CallbackExchange(q, env, d) ==
    /\ q.pc = "cb_exchange"
    /\ LET val == SavedSession(d, Token[FlowIndex(q.state)])
           w == SessionStore_set(auth_session, d, val)
       IN  IF env = "ok" /\ q.verifier = Verifier[FlowIndex(q.state)]
           THEN /\ auth_session' = w.table
                /\ IF w.error = "none"
                   THEN /\ inflight' = Step(q, [q EXCEPT !.pc = "cb_bind", !.sub = d])
                        /\ completed' = completed \cup {d}
                        /\ lastSet' = [lastSet EXCEPT ![d] = val]
                        /\ resp' = Idle
                   ELSE /\ inflight' = Leave(q)
                        /\ resp' = LoginFailed([q EXCEPT !.sub = d], w.error)
                        /\ UNCHANGED <<completed, lastSet>>
           ELSE /\ inflight' = Leave(q)
                /\ resp' = LoginFailed(q, "CallbackValidationError")
                /\ UNCHANGED <<auth_session, completed, lastSet>>
    /\ UNCHANGED <<auth_state, jar, nextFlow, consumed, log, lost, cookieSecret, listening>>

\* callback has returned to the handler, which calls getSession and awaits
\* it; getIronSession rejects a password that is too short, and the
\* handler's catch answers 500.
CallbackBind(q) ==
    /\ q.pc = "cb_bind"
    /\ IF PasswordOk
       THEN /\ inflight' = Step(q, [q EXCEPT !.pc = "cb_save"])
            /\ resp' = Idle
       ELSE /\ inflight' = Leave(q)
            /\ resp' = LoginFailed(q, "PasswordTooShort")
    /\ UNCHANGED <<auth_state, auth_session, jar, nextFlow, consumed, completed, lastSet, log, lost, cookieSecret, listening>>

\* getSession has returned the cookie session: session.did =
\* oauthSession.did; session.save() is called and awaited.
CallbackSave(q) ==
    /\ q.pc = "cb_save"
    /\ inflight' = Step(q, [SessionSave(q, q.sub) EXCEPT !.pc = "cb_redirect"])
    /\ resp' = Idle
    /\ UNCHANGED <<auth_state, auth_session, jar, nextFlow, consumed, completed, lastSet, log, lost, cookieSecret, listening>>

\* save has returned: res.redirect("/").
CallbackRedirect(q) ==
    /\ q.pc = "cb_redirect"
    /\ inflight' = Leave(q)
    /\ resp' = Respond(q, 302, "/")
    /\ jar' = Browser(resp')
    /\ UNCHANGED <<auth_state, auth_session, nextFlow, consumed, completed, lastSet, log, lost, cookieSecret, listening>>

----------------------------------------------------------------------------
(* getSessionAgent and the routes that call it *)

\* oauthClient.restore(sub): reads the subject's session record and has the
\* provider validate it. No record: absent. The provider rejects the stored
\* credential: CredentialRestoreError. Storage or network unreachable:
\* InfrastructureError.
Restore(table, sub, env) ==
    LET res == SessionStore_get(table, sub)
    IN  IF env = "unreachable" THEN Thrown("InfrastructureError")
        ELSE IF res.error # "none" THEN Thrown(res.error)
        ELSE IF ~res.found THEN NoValue
        ELSE IF env = "rejected" THEN Thrown("CredentialRestoreError")
        ELSE Value(res.val)

\* What restore does in a request: it answers from the store, the provider
\* rejects the credential, or storage or network are unreachable.
RestoreOutcomes == {"ok", "rejected", "unreachable"}

\* What the outcome of restore is called in a response.
RestoreOutcome(out) ==
    IF out.error # "none" THEN out.error
    ELSE IF out.found THEN "credential" ELSE "absent"

\* getSessionAgent, line `if (!session.did) return null`.
HasDid_Always(session) == TRUE
HasDid(session) == ~Falsy(Prop(session, "did"))

\* getSessionAgent, the try/catch around restore: a session gives an Agent
\* for it, no session gives null, and any exception destroys the cookie
\* session and gives null.
getSessionAgent(q, out) ==
    IF out.error # "none" THEN SessionDestroy([q EXCEPT !.agent = "null"])
    ELSE IF out.found THEN [q EXCEPT !.agent = Prop(out.val, "sub")]
    ELSE [q EXCEPT !.agent = "null"]

\* The handler calls the repository through the agent and awaits the
\* answer.
Called(q, call) == [q EXCEPT !.pc = "repo", !.repo = Append(@, call)]

\* A record of the repository is what some client wrote: listRecords may
\* answer with a record whose ingredients, or whose steps, is a truthy
\* value that is not an array, such as a string.
MalformedRecords == {"ingredients not an array", "steps not an array"}

\* What the repository does with the call q awaits: it answers ("ok":
\* with data the handler can render), or the call rejects; listRecords
\* may also answer with a malformed record.
RepoOutcomes(q) ==
    {"ok", "rejected"} \cup (IF q.route = "GET /recipes" THEN MalformedRecords ELSE {})

\* The repository calls of GET /, in the order the handler awaits them.
HomeCalls == <<"getProfile", "getAuthorFeed">>

\* GET / from the return of getSessionAgent (pc "handler") or of an awaited
\* repository call (pc "repo", out its outcome) to the next await or the
\* response: the landing page without an agent; with one, getProfile, then
\* getAuthorFeed, then the profile page.
HomePage(q, out) ==
    IF q.pc = "handler"
    THEN IF q.agent = "null" THEN {Respond(q, 200, "anonymous")}
         ELSE {Called(q, HomeCalls[1])}
    ELSE IF out # "ok" THEN Unhandled(q, "RepositoryError")
    ELSE IF Len(q.repo) < Len(HomeCalls) THEN {Called(q, HomeCalls[Len(q.repo) + 1])}
    ELSE {Respond(q, 200, "authenticated")}

\* if (!agent) { res.redirect("/login"); return; }
Unauthorized(q) == q.agent = "null"

PostForms == {NoBody, Body([text |-> ""]), Body([text |-> "hello"])}

\* const text = req.body?.text; if (!text)
MissingText(form) == Falsy(OptField(form, "text"))

\* POST /post from the return of getSessionAgent or of agent.post: without
\* an agent the browser is sent to /login; without a text the answer is
\* 400; otherwise agent.post and, once it has answered, a redirect to /.
PostPostResponses(a, out) ==
    IF a.pc = "handler"
    THEN IF Unauthorized(a) THEN {Respond(a, 302, "/login")}
         ELSE IF MissingText(a.form) THEN {Respond(a, 400, "Post text is required")}
         ELSE {Called(a, "post")}
    ELSE IF out # "ok" THEN Unhandled(a, "RepositoryError")
    ELSE {Respond(a, 302, "/")}

\* express.urlencoded({ extended: true }) parses the body f[]=x to an array
\* and f[k]=x to an object: field values that are truthy and not strings,
\* written here as their source text.
ArrayField == "['flour']"
ObjectField == "{a: 'bake'}"

\* Only a string has the method split.
HasSplit(v) == v \notin {ArrayField, ObjectField}

RecipeForms ==
    {NoBody,
     Body([ingredients |-> "flour", steps |-> "bake"]),
     Body([title |-> "bread", ingredients |-> "", steps |-> "bake"]),
     Body([title |-> "bread", ingredients |-> "flour", steps |-> ""]),
     Body([title |-> "bread", ingredients |-> ArrayField, steps |-> "bake"]),
     Body([title |-> "bread", ingredients |-> "flour", steps |-> ObjectField]),
     Body([title |-> "bread", ingredients |-> "flour", steps |-> "bake"])}

\* if (!title || !ingredients || !steps)
MissingRecipeField(fields) ==
    Falsy(Prop(fields, "title")) \/ Falsy(Prop(fields, "ingredients")) \/ Falsy(Prop(fields, "steps"))

\* The argument of putRecord is built before the call: ingredients.split
\* and steps.split throw a TypeError on a value that is not a string.
SplitThrows(fields) ==
    ~HasSplit(Prop(fields, "ingredients")) \/ ~HasSplit(Prop(fields, "steps"))

\* POST /recipe from the return of getSessionAgent or of putRecord: without
\* an agent the browser is sent to /login; the fields are destructured from
\* req.body, which throws a TypeError when there is no body (req.body is
\* undefined only under the express that forwards a rejected handler to its
\* error page); without one of the fields the answer is 400; a field
\* without split makes the handler throw before putRecord; otherwise
\* putRecord and, once it has answered, a redirect to /recipes.
PostRecipeResponses(a, out) ==
    IF a.pc = "handler"
    THEN IF Unauthorized(a) THEN {Respond(a, 302, "/login")}
         ELSE IF a.form = NoBody THEN {ErrorPage(a, "TypeError")}
         ELSE IF MissingRecipeField(a.form[1])
              THEN {Respond(a, 400, "Title, ingredients, and steps are required")}
         ELSE IF SplitThrows(a.form[1]) THEN Unhandled(a, "TypeError")
         ELSE {Called(a, "putRecord")}
    ELSE IF out # "ok" THEN Unhandled(a, "RepositoryError")
    ELSE {Respond(a, 302, "/recipes")}

\* GET /recipes from the return of getSessionAgent or of listRecords:
\* without an agent the browser is sent to /login; otherwise listRecords
\* and, once it has answered, the page of the recipes. The page is built
\* with (r.ingredients || []).map and (r.steps || []).map, which throw a
\* TypeError on a malformed record.
GetRecipesResponses(a, out) ==
    IF a.pc = "handler"
    THEN IF Unauthorized(a) THEN {Respond(a, 302, "/login")}
         ELSE {Called(a, "listRecords")}
    ELSE IF out = "rejected" THEN Unhandled(a, "RepositoryError")
    ELSE IF out \in MalformedRecords THEN Unhandled(a, "TypeError")
    ELSE {Respond(a, 200, "recipes")}

\* The routes whose handler starts with await getSessionAgent(req, res).
AgentRoutes == {"GET /", "POST /post", "POST /recipe", "GET /recipes"}

\* The handler of a's route from one await to the next: the request as it
\* waits for a repository call, or as it is answered.
Handler(a, out) ==
    CASE a.route = "GET /" -> HomePage(a, out)
      [] a.route = "POST /post" -> PostPostResponses(a, out)
      [] a.route = "POST /recipe" -> PostRecipeResponses(a, out)
      [] a.route = "GET /recipes" -> GetRecipesResponses(a, out)

\* A request for a route that starts with await getSessionAgent arrives,
\* carrying its cookie and form; the handler waits for getSession.
Arrives(route, cookie, form) ==
    /\ Accepting
    /\ inflight' = inflight (+) SetToBag({
           [Request(route, cookie) EXCEPT !.pc = "session", !.form = form]})
    /\ resp' = Idle
    /\ UNCHANGED <<auth_state, auth_session, jar, nextFlow, consumed, completed, lastSet, log, lost, cookieSecret, listening>>

GetHome(cookie) == Arrives("GET /", cookie, NoBody)

PostPost(cookie, form) == Arrives("POST /post", cookie, form)

PostRecipe(cookie, form) == Arrives("POST /recipe", cookie, form)

GetRecipes(cookie) == Arrives("GET /recipes", cookie, NoBody)

\* getSessionAgent: getSession has unsealed the cookie. Without a did it
\* returns null and the handler goes on to its response; with one,
\* oauthClient.restore reads the session store. A password that is too
\* short makes getSession throw, outside the try.
SessionAgent(q, env) ==
    /\ q.pc = "session"
    /\ LET session == getSession(q.cookie)
           sub == Prop(session, "did")
           out == Restore(auth_session, sub, env)
       IN  IF ~PasswordOk
           THEN /\ env = "ok"
                /\ resp' \in Unhandled(q, "PasswordTooShort")
                /\ inflight' = Leave(q)
           ELSE IF ~HasDid(session)
           THEN /\ env = "ok"
                /\ resp' \in Handler([q EXCEPT !.pc = "handler", !.agent = "null"], "ok")
                /\ inflight' = Leave(q)
           ELSE /\ inflight' = Step(q, getSessionAgent(
                      [q EXCEPT !.pc = "handler", !.sub = sub,
                                !.restore = RestoreOutcome(out),
                                !.touched = (env # "unreachable"),
                                !.live = (sub \in completed)], out))
                /\ resp' = Idle
    /\ UNCHANGED <<auth_state, auth_session, jar, nextFlow, consumed, completed, lastSet, log, lost, cookieSecret, listening>>

\* Request q goes on as n: it is answered when n is a response, and waits
\* otherwise.
Continues(q, n) ==
    /\ inflight' = IF n.pc = "done" THEN Leave(q) ELSE Step(q, n)
    /\ resp' = IF n.pc = "done" THEN n ELSE Idle
    /\ jar' = Browser(resp')

\* restore has returned to getSessionAgent and getSessionAgent to the
\* handler, which sends its response or calls the repository and awaits
\* the answer.
HandlerSend(q) ==
    /\ q.pc = "handler"
    /\ \E n \in Handler(q, "ok") : Continues(q, n)
    /\ UNCHANGED <<auth_state, auth_session, nextFlow, consumed, completed, lastSet, log, lost, cookieSecret, listening>>

\* The awaited repository call has answered or rejected: the handler makes
\* its next call or sends its response; a rejection ends the handler.
RepositoryAnswers(q, out) ==
    /\ q.pc = "repo"
    /\ \E n \in Handler(q, out) : Continues(q, n)
    /\ UNCHANGED <<auth_state, auth_session, nextFlow, consumed, completed, lastSet, log, lost, cookieSecret, listening>>

----------------------------------------------------------------------------
(* POST /logout *)

\* The request arrives; the handler waits for getSession.
PostLogout(cookie) ==
    /\ Accepting
    /\ inflight' = inflight (+) SetToBag({[Request("POST /logout", cookie) EXCEPT !.pc = "logout"]})
    /\ resp' = Idle
    /\ UNCHANGED <<auth_state, auth_session, jar, nextFlow, consumed, completed, lastSet, log, lost, cookieSecret, listening>>

\* session.destroy(); res.redirect("/").
LogoutSend(q) ==
    /\ q.pc = "logout"
    /\ resp' \in IF PasswordOk THEN {Respond(SessionDestroy(q), 302, "/")}
                 ELSE Unhandled(q, "PasswordTooShort")
    /\ inflight' = Leave(q)
    /\ jar' = Browser(resp')
    /\ UNCHANGED <<auth_state, auth_session, nextFlow, consumed, completed, lastSet, log, lost, cookieSecret, listening>>

----------------------------------------------------------------------------
(* Process restart: main() builds a new, empty in-memory database. Requests
   in flight are lost; the browser keeps its cookie. *)

Restart_FileDb ==
    /\ listening
    /\ listening' = FALSE
    /\ inflight' = EmptyBag
    /\ resp' = Idle
    /\ UNCHANGED <<auth_state, auth_session, completed, lastSet, lost, jar, nextFlow, consumed,
                   log, cookieSecret>>

Restart ==
    /\ listening
    /\ listening' = FALSE
    /\ auth_state' = {}
    /\ auth_session' = {}
    /\ inflight' = EmptyBag
    /\ completed' = {}
    /\ lastSet' = [d \in Subjects |-> NoSession]
    /\ resp' = Idle
    /\ lost' = lost \cup {r.key : r \in auth_state}
    /\ UNCHANGED <<jar, nextFlow, consumed, log, cookieSecret>>

\* main(): createDb(":memory:"), migrateToLatest, createOAuthClient, the
\* routes, app.listen. Nothing here looks at the cookie secret.
Main ==
    /\ ~listening
    /\ listening' = TRUE
    /\ auth_state' = {}
    /\ auth_session' = {}
    /\ UNCHANGED <<jar, inflight, resp, nextFlow, consumed, completed, lastSet, log, lost, cookieSecret>>

----------------------------------------------------------------------------
(* The process has been started: the module's constants are evaluated,
   main() has not run yet. *)

StartInit ==
    /\ cookieSecret \in {CookieSecretOf(env) : env \in EnvSecrets}
    /\ listening = FALSE
    /\ auth_state = {}
    /\ auth_session = {}
    /\ jar = NoCookie
    /\ inflight = EmptyBag
    /\ resp = Idle
    /\ nextFlow = 0
    /\ consumed = {}
    /\ completed = {}
    /\ lastSet = [d \in Subjects |-> NoSession]
    /\ log = <<NoCall, NoCall, NoCall>>
    /\ lost = {}

\* The process started with a COOKIE_SECRET as the README requires it.
Init == StartInit /\ cookieSecret >= MinSecretLen

StoreNext ==
    \/ \E k \in Keys : CallStateGet(k)
    \/ \E k \in Keys, v \in StateVals : CallStateSet(k, v)
    \/ \E k \in Keys : CallStateDel(k)
    \/ \E k \in Keys : CallSessionGet(k)
    \/ \E k \in Keys, v \in SessionVals : CallSessionSet(k, v)
    \/ \E k \in Keys : CallSessionDel(k)

StoreSpec == Init /\ [][StoreNext]_vars

\* The same caller on a database whose reads may fail.
StoreIoNext ==
    \/ StoreNext
    \/ \E k \in Keys : CallStateGetFails(k)
    \/ \E k \in Keys : CallSessionGetFails(k)

StoreIoSpec == Init /\ [][StoreIoNext]_vars

\* What a request may carry as its cookie: the browser's, or a forgery.
Cookies == {jar, Forged("d1")}

\* The routes of src/src/index.ts, each handler advancing from one await to
\* the next.
Routes ==
    \/ \E f \in LoginForms : PostLogin(f)
    \/ \E q \in Handling("authorize"), e \in AuthorizeOutcomes : LoginAuthorize(q, e)
    \/ \E q \in Handling("redirect") : LoginRedirect(q)
    \/ \E s \in {UnknownState} \cup {StateParam[i] : i \in 1..MaxFlows} : CallbackGet(s)
    \/ \E q \in Handling("cb_del") : CallbackDel(q)
    \/ \E q \in Handling("cb_exchange"),
          a \in {<<"rejected", "d1">>} \cup {<<"ok", d>> : d \in Subjects} :
          CallbackExchange(q, a[1], a[2])
    \/ \E q \in Handling("cb_bind") : CallbackBind(q)
    \/ \E q \in Handling("cb_save") : CallbackSave(q)
    \/ \E q \in Handling("cb_redirect") : CallbackRedirect(q)
    \/ \E c \in Cookies : GetHome(c)
    \/ \E c \in Cookies, f \in PostForms : PostPost(c, f)
    \/ \E q \in Handling("session"), e \in RestoreOutcomes : SessionAgent(q, e)
    \/ \E q \in Handling("handler") : HandlerSend(q)
    \/ \E q \in Handling("repo") : \E r \in RepoOutcomes(q) : RepositoryAnswers(q, r)
    \/ \E c \in Cookies : PostLogout(c)
    \/ \E q \in Handling("logout") : LogoutSend(q)

\* The process of src/src/index.ts: main, the routes, and the restart.
Next ==
    \/ Routes
    \/ Restart
    \/ Main

Spec == Init /\ [][Next]_vars

\* The process of the later index.ts, which adds the routes POST /recipe
\* and GET /recipes.
AppNext ==
    \/ Next
    \/ \E c \in Cookies, f \in RecipeForms : PostRecipe(c, f)
    \/ \E c \in Cookies : GetRecipes(c)

AppSpec == Init /\ [][AppNext]_vars

\* The process started with any COOKIE_SECRET of the environment.
StartSpec == StartInit /\ [][Next]_vars

----------------------------------------------------------------------------
(* Claims about the stores *)

\* C1: in both stores, set(k, v1), set(k, v2), get(k) returns v2, neither
\* set fails, and the table holds exactly one row for k.
C1_UpsertOverwrites ==
    (/\ log[1].op = "set" /\ log[2].op = "set" /\ log[3].op = "get"
     /\ log[1].store = log[2].store /\ log[2].store = log[3].store
     /\ log[1].key = log[2].key /\ log[2].key = log[3].key)
    => /\ log[1].error = "none" /\ log[2].error = "none" /\ log[3].error = "none"
       /\ log[3].found
       /\ SameObj(log[3].ret, log[2].val)
       /\ Cardinality(WhereKey(TableOf(log[3].store), log[3].key)) = 1

\* C1 witness: such a sequence with two different values in the session store.
C1_Witness ==
    /\ log[1].op = "set" /\ log[2].op = "set" /\ log[3].op = "get"
    /\ log[1].store = "auth_session" /\ log[2].store = "auth_session"
    /\ log[3].store = "auth_session"
    /\ log[1].key = log[2].key /\ log[2].key = log[3].key
    /\ ~SameObj(log[1].val, log[2].val)
    /\ log[3].found

\* C2: del(k) of a key that is not present does not fail and changes no
\* row of either table, so a second del(k) changes nothing after the first.
C2_DelAbsentIsNoOp ==
    [][ log'[3].op = "del" =>
          /\ log'[3].error = "none"
          /\ WhereKey(TableOf(log'[3].store), log'[3].key) = {}
               => (auth_state' = auth_state /\ auth_session' = auth_session)
          /\ (log[3].op = "del" /\ log[3].store = log'[3].store
                /\ log[3].key = log'[3].key)
               => (auth_state' = auth_state /\ auth_session' = auth_session)
      ]_vars

\* C2 witness: del(k) twice in a row while the table holds another row.
C2_Witness ==
    /\ log[2].op = "del" /\ log[3].op = "del"
    /\ log[2].store = log[3].store /\ log[2].key = log[3].key
    /\ TableOf(log[3].store) # {}

----------------------------------------------------------------------------
(* Claims about the flow and the session *)

Callback == "GET /oauth/callback"

\* The callbacks in flight that found the record of flow x, as a bag.
HoldersOf(x) ==
    [q \in {h \in BagToSet(inflight) : h.route = Callback /\ h.state = x} |-> inflight[q]]

\* C3: once a callback has consumed the record of flow X, the record stays
\* gone, and a callback arriving later with X fails with
\* UnknownOrConsumedFlow: it is answered by the 500 page, sets no cookie and
\* never gets past the lookup to a credential.
C3_FlowSingleUse ==
    /\ \A x \in consumed : WhereKey(auth_state, x) = {}
    /\ \A q \in BagToSet(inflight) : ~q.late
    /\ (resp.route = Callback /\ resp.late)
         => /\ resp.status = 500
            /\ resp.body = "Login failed"
            /\ resp.error = "UnknownOrConsumedFlow"
            /\ resp.sub = Undefined
            /\ ~resp.setCookie

\* C3 witness: a callback for an already consumed flow has been answered.
C3_Witness ==
    /\ resp.route = Callback /\ resp.late /\ resp.status = 500
    /\ resp.state \in consumed

\* C4: restore(subject) with no session record for the subject signals
\* absence: it does not throw for the missing record (no
\* CredentialRestoreError, no exception of the store), and getSessionAgent
\* then gives null. Only unreachable infrastructure makes it throw.
C4_RestoreAbsent ==
    /\ (/\ resp.route = "GET /" /\ resp.restore # "none"
        /\ WhereKey(auth_session, resp.sub) = {})
       => \/ resp.restore = "InfrastructureError"
          \/ /\ resp.restore = "absent"
             /\ resp.agent = "null"
             /\ resp.status = 200
    /\ \A q \in BagToSet(inflight) :
          (q.pc \in {"handler", "repo"} /\ WhereKey(auth_session, q.sub) = {})
          => \/ q.restore = "InfrastructureError"
             \/ q.restore = "absent" /\ q.agent = "null" /\ ~q.setCookie

\* C4 witness: restore ran for a bound subject without a record.
C4_Witness ==
    /\ resp.route = "GET /" /\ resp.restore = "absent"
    /\ resp.cookie = Sealed(resp.sub)
    /\ WhereKey(auth_session, resp.sub) = {}

\* C5: once a callback has succeeded for subject d (and no restart since),
\* d's record is in the session store before the handler goes on, and
\* restore(d) does not signal absence: what it returns is d's credential.
C5_RestoreAfterCallback ==
    /\ \A d \in completed : WhereKey(auth_session, d) # {}
    /\ \A q \in BagToSet(inflight) :
          q.pc \in {"cb_bind", "cb_save", "cb_redirect"} => q.sub \in completed
    /\ (resp.route = "GET /" /\ resp.live /\ resp.restore \in {"absent", "credential"})
         => /\ resp.restore = "credential"
            /\ resp.agent = resp.sub

\* C5 witness: restore returned the credential of a subject whose callback
\* had succeeded.
C5_Witness ==
    /\ resp.route = "GET /" /\ resp.live /\ resp.restore = "credential"
    /\ resp.sub \in completed

\* C6: getSessionAgent on a request whose cookie is missing, forged or
\* corrupted returns null without throwing, and neither calls restore nor
\* touches a store.
C6_ForgedCookieIsAnonymous ==
    /\ \A q \in BagToSet(inflight) :
          q.pc \in {"handler", "repo"} => (q.cookie.seal = "ok" /\ q.restore # "none")
    /\ (resp.route = "GET /" /\ resp.cookie.seal # "ok")
         => /\ resp.agent = "null"
            /\ resp.error = "none"
            /\ resp.status = 200
            /\ resp.body = "anonymous"
            /\ resp.restore = "none"
            /\ ~resp.touched

\* C6 witness: a request with a forged cookie naming a subject that has a
\* session record was answered.
C6_Witness ==
    /\ resp.route = "GET /" /\ resp.cookie.seal = "bad" /\ resp.status = 200
    /\ WhereKey(auth_session, resp.cookie.did) # {}

\* C7: when restore signals absence or fails for the subject read from the
\* cookie, the cookie binding is destroyed.
C7_SelfHealing ==
    (resp.route = "GET /" /\ resp.restore \in {"absent", "CredentialRestoreError"})
    => /\ resp.setCookie
       /\ resp.outCookie = NoCookie
       /\ jar = NoCookie

\* C8: an infrastructure failure during getSessionAgent propagates (the
\* request ends in a server error); it is not turned into null and does not
\* destroy the cookie binding.
C8_InfrastructureErrorPropagates ==
    (resp.route = "GET /" /\ resp.restore = "InfrastructureError")
    => /\ resp.status = 500
       /\ resp.agent # "null"
       /\ ~resp.setCookie

\* C9: of the callbacks racing for one flow identifier at most one gets the
\* flow's record; the others observe UnknownOrConsumedFlow.
C9_CallbackRaceSafe ==
    \A i \in 1..nextFlow : BagCardinality(HoldersOf(StateParam[i])) <= 1

\* C10: concurrent set calls for one session key both complete, and the
\* store holds exactly one record for the key, with the value written last;
\* no subject ever has more than one record.
C10_SessionLastWriteWins ==
    /\ PrimaryKey(auth_session)
    /\ resp.error # "SQLITE_CONSTRAINT_PRIMARYKEY"
    /\ \A d \in Subjects :
         LET rows == WhereKey(auth_session, d)
         IN  /\ Cardinality(rows) <= 1
             /\ lastSet[d] # NoSession =>
                  /\ Cardinality(rows) = 1
                  /\ \A r \in rows : SameObj(JSONparse(r.session), lastSet[d])

\* C10 witness: two callbacks in flight have both written the record of the
\* same subject, with the tokens of two different flows.
C10_Witness ==
    \E q1, q2 \in BagToSet(inflight) :
        /\ q1.pc = "cb_bind" /\ q2.pc = "cb_bind"
        /\ q1.sub = q2.sub
        /\ Token[FlowIndex(q1.state)] # Token[FlowIndex(q2.state)]
        /\ \E r \in auth_session : r.key = q1.sub /\ SameObj(JSONparse(r.session), lastSet[q1.sub])

----------------------------------------------------------------------------
(* Claims about the routes *)

\* C11: POST /login with a missing or empty handle answers 400 'Handle is
\* required' without calling authorize: no flow is started and both stores
\* are after the request what they were before it.
C11_MissingHandleIs400 ==
    [][ (resp'.route = "POST /login" /\ Falsy(OptField(resp'.form, "handle")))
        => /\ resp'.status = 400
           /\ resp'.body = "Handle is required"
           /\ ~resp'.touched
           /\ resp'.state = "none"
           /\ nextFlow' = nextFlow
           /\ auth_state' = auth_state
           /\ auth_session' = auth_session
      ]_vars

\* C11 witness: an empty handle was answered while a flow record is stored.
C11_Witness ==
    /\ resp.route = "POST /login" /\ resp.form = Body([handle |-> ""])
    /\ resp.status = 400
    /\ auth_state # {}

\* C12: POST /login with a handle whose resolution fails answers 500 with
\* the failure message and a link to /login, and the flow-state store is
\* after the request what it was before it.
C12_AuthorizeFailureIs500 ==
    [][ (resp'.route = "POST /login" /\ resp'.error # "none")
        => /\ ~(Falsy(OptField(resp'.form, "handle")))
           /\ resp'.status = 500
           /\ resp'.body = "Login failed"
           /\ resp'.error \in {"AuthorizationInitiationError", NonError}
           /\ resp'.message = ErrorMessage(resp'.error)
           /\ resp'.error = "AuthorizationInitiationError" => resp'.message = resp'.error
           /\ ~resp'.setCookie
           /\ nextFlow' = nextFlow
           /\ auth_state' = auth_state
           /\ auth_session' = auth_session
      ]_vars

\* C12 witness: a login failed while the record of an earlier flow is stored.
C12_Witness ==
    /\ resp.route = "POST /login" /\ resp.status = 500
    /\ resp.error = "AuthorizationInitiationError"
    /\ auth_state # {}

\* C13: a callback whose state parameter matches no flow record is answered
\* by the 500 failure page, sets no cookie and leaves the session store as
\* it was; only a callback that found its record goes on.
C13_UnknownFlowIs500 ==
    [][ /\ (resp'.route = Callback /\ resp'.verifier = Undefined)
           => /\ WhereKey(auth_state, resp'.state) = {}
              /\ resp'.status = 500
              /\ resp'.body = "Login failed"
              /\ resp'.error = "UnknownOrConsumedFlow"
              /\ ~resp'.setCookie
              /\ jar' = jar
              /\ auth_session' = auth_session
              /\ auth_state' = auth_state
        /\ \A q \in BagToSet(inflight') :
              (q.pc = "cb_del" /\ CopiesIn(q, inflight') > CopiesIn(q, inflight))
              => WhereKey(auth_state, q.state) # {}
      ]_vars

\* C13 witness: a callback with a state parameter never issued was answered
\* while the session store holds a record.
C13_Witness ==
    /\ resp.route = Callback /\ resp.state = UnknownState /\ resp.status = 500
    /\ auth_session # {}

\* C14: a successful callback for subject d sets the cookie sealed for d
\* and redirects to /; a GET / carrying a cookie sealed for d, while d's
\* credential can be restored and the repository answers, renders the
\* authenticated view for d and not the landing page.
C14_CallbackThenAuthenticatedHome ==
    /\ (resp.route = Callback /\ resp.status = 302)
         => /\ resp.body = "/"
            /\ resp.sub \in Subjects
            /\ resp.setCookie
            /\ resp.outCookie = Sealed(resp.sub)
            /\ jar = Sealed(resp.sub)
            /\ WhereKey(auth_session, resp.sub) # {}
    /\ (/\ resp.route = "GET /" /\ resp.cookie.seal = "ok" /\ resp.live
        /\ resp.restore \notin {"CredentialRestoreError", "InfrastructureError"}
        /\ resp.error # "RepositoryError")
         => /\ resp.status = 200
            /\ resp.body = "authenticated"
            /\ resp.agent = resp.cookie.did
            /\ resp.repo = <<"getProfile", "getAuthorFeed">>
            /\ ~resp.setCookie

\* C14 witness: GET / with the cookie of a completed callback rendered the
\* authenticated view.
C14_Witness ==
    /\ resp.route = "GET /" /\ resp.cookie = Sealed("d1") /\ resp.live
    /\ resp.body = "authenticated"
    /\ jar = Sealed("d1")

\* C15: POST /logout clears the cookie and changes neither store, so the
\* record of the subject that was logged in stays as it is; GET / with the
\* cleared cookie renders the anonymous landing page without touching the
\* session store.
C15_LogoutKeepsRecord ==
    [][ /\ resp'.route = "POST /logout"
           => /\ resp'.setCookie /\ resp'.outCookie = NoCookie
              /\ jar' = NoCookie
              /\ auth_state' = auth_state
              /\ auth_session' = auth_session
        /\ (resp'.route = "GET /" /\ resp'.cookie = NoCookie)
           => /\ resp'.status = 200 /\ resp'.body = "anonymous"
              /\ resp'.restore = "none"
              /\ auth_session' = auth_session
      ]_vars

\* C15 witness: the logged-in subject logged out and its record is still
\* in the session store.
C15_Witness ==
    /\ resp.route = "POST /logout" /\ resp.cookie = Sealed("d1")
    /\ jar = NoCookie
    /\ \E r \in auth_session : r.key = "d1" /\ SameObj(JSONparse(r.session), lastSet["d1"])

\* C16: a COOKIE_SECRET shorter than the minimum makes startup fail: the
\* server never listens with a secret of fewer than 32 characters.
C16_ShortSecretFailsStartup ==
    listening => cookieSecret >= MinSecretLen

\* The routes that act on the user's repository.
RepoRoutes == {"POST /post", "POST /recipe", "GET /recipes"}

\* A required field of the route's form is missing or empty.
RequiredFieldMissing(r) ==
    \/ r.route = "POST /post" /\ Falsy(OptField(r.form, "text"))
    \/ r.route = "POST /recipe"
         /\ \E f \in {"title", "ingredients", "steps"} : Falsy(OptField(r.form, f))

\* C17: the repository routes call the repository only with an agent and
\* with the required fields non-empty; without an agent the request is
\* redirected to /login, with a required field missing it is answered 400,
\* and in both cases the repository is not called.
C17_RepoOnlyWhenAuthorized ==
    /\ \A q \in BagToSet(inflight) :
          q.repo # <<>> => (q.agent \in Subjects /\ ~RequiredFieldMissing(q))
    /\ resp.route \in RepoRoutes
       => /\ resp.repo # <<>> => (resp.agent \in Subjects /\ ~RequiredFieldMissing(resp))
          /\ resp.agent = "null"
               => (resp.status = 302 /\ resp.body = "/login" /\ resp.repo = <<>>)
          /\ (resp.agent \in Subjects /\ RequiredFieldMissing(resp))
               => (resp.status = 400 /\ resp.repo = <<>>)

\* C17 apart from POST /recipe with req.body undefined, a request that
\* reaches the handler only where the body parser leaves req.body unset.
C17_WhenBodyParsed ==
    \/ resp.route = "POST /recipe" /\ resp.form = NoBody
    \/ C17_RepoOnlyWhenAuthorized

\* C17, the remaining case: with an agent and req.body undefined POST
\* /recipe throws before the field check and calls nothing.
C17_UndefinedBody ==
    (resp.route = "POST /recipe" /\ resp.form = NoBody /\ resp.agent \in Subjects)
    => (resp.status = 500 /\ resp.error = "TypeError" /\ resp.repo = <<>>)

\* C18: POST /logout, whatever cookie the request carries, clears the
\* cookie and redirects to / without calling restore or reading a store,
\* and a logout of a browser without cookie changes nothing: two logouts
\* in a row leave what one leaves.
C18_LogoutUnconditionalIdempotent ==
    [][ resp'.route = "POST /logout"
        => /\ resp'.status = 302 /\ resp'.body = "/"
           /\ resp'.setCookie /\ resp'.outCookie = NoCookie
           /\ resp'.restore = "none" /\ ~resp'.touched /\ resp'.agent = "none"
           /\ jar' = NoCookie
           /\ jar = NoCookie => jar' = jar
           /\ UNCHANGED <<auth_state, auth_session, nextFlow, consumed, completed,
                          lastSet, lost, cookieSecret, listening>>
      ]_vars

\* C18 witness: a forged cookie was logged out while the browser was
\* already logged out and a session record exists.
C18_Witness ==
    /\ resp.route = "POST /logout" /\ resp.cookie.seal = "bad"
    /\ jar = NoCookie
    /\ auth_session # {}

\* C19: a restart leaves both stores empty; afterwards a request with a
\* cookie bound before the restart is not authenticated (until its subject
\* completes a new callback), and a callback for a flow whose record the
\* restart dropped fails.
C19_StoresAreProcessScoped ==
    [][ /\ (listening /\ ~listening') => (auth_state' = {} /\ auth_session' = {})
        /\ (~listening /\ listening') => (auth_state' = {} /\ auth_session' = {})
        /\ \A x \in lost' : WhereKey(auth_state', x) = {}
        /\ \A q \in BagToSet(inflight') : q.route = Callback => q.state \notin lost'
        /\ (resp'.route = Callback /\ resp'.state \in lost')
           => /\ resp'.status = 500 /\ resp'.error = "UnknownOrConsumedFlow"
              /\ ~resp'.setCookie
        /\ (resp'.route = "GET /" /\ resp'.cookie.seal = "ok" /\ ~resp'.live)
           => /\ resp'.agent = "null" /\ resp'.body = "anonymous"
              /\ resp'.restore \in {"absent", "InfrastructureError"}
      ]_vars

\* C19 witness: after a restart, a callback for a flow of before the
\* restart was answered while the browser still holds its cookie.
C19_Witness ==
    /\ resp.route = Callback /\ resp.state \in lost /\ resp.status = 500
    /\ jar.seal = "ok"

\* C20: a callback that found the record of flow X and then failed in the
\* validation or the exchange leaves X's record deleted, the session store
\* and the cookie as they were, and every callback for X that arrives
\* later fails.
C20_CallbackFailureIsTerminal ==
    [][ /\ (resp'.route = Callback /\ resp'.error = "CallbackValidationError")
           => /\ resp'.status = 500
              /\ WhereKey(auth_state', resp'.state) = {}
              /\ resp'.state \in consumed'
              /\ auth_session' = auth_session
              /\ ~resp'.setCookie
              /\ jar' = jar
        /\ \A x \in consumed' : WhereKey(auth_state', x) = {}
        /\ (resp'.route = Callback /\ resp'.late)
           => (resp'.status = 500 /\ resp'.verifier = Undefined /\ auth_session' = auth_session)
      ]_vars

\* C20 witness: a callback that had found its record failed in the
\* exchange while the browser is logged in and a session record exists.
C20_Witness ==
    /\ resp.route = Callback /\ resp.error = "CallbackValidationError"
    /\ resp.verifier # Undefined
    /\ auth_session # {}
    /\ jar.seal = "ok"

----------------------------------------------------------------------------
(* Claims about the whole flow *)

\* The flow identifiers of the authorization attempts in flight: authorize
\* has returned them to a browser of this process and no callback has
\* deleted their record.
LiveFlows == {StateParam[i] : i \in 1..nextFlow} \ (consumed \cup lost)

\* The row authorize saves for the i-th flow.
FlowRow(i) ==
    [key |-> StateParam[i], state |-> JSONstringify(SavedState(Verifier[i], Undefined))]

\* C21: the flow-state store holds exactly one record for each
\* authorization attempt in flight and none for any other identifier: a
\* successful authorize adds one record under an identifier that is not a
\* live one and was never used, and apart from the restart that ends the
\* process a record is only removed by the callback that consumes it.
C21_OneRecordPerFlowInFlight ==
    [][ /\ {r.key : r \in auth_state'} = LiveFlows'
        /\ PrimaryKey(auth_state')
        /\ ~(auth_state' \subseteq auth_state)
           => /\ nextFlow' = nextFlow + 1
              /\ StateParam[nextFlow'] \notin {r.key : r \in auth_state} \cup consumed \cup lost
              /\ auth_state' = auth_state \cup {FlowRow(nextFlow')}
              /\ \E q \in BagToSet(inflight) : q.route = "POST /login" /\ q.pc = "authorize"
              /\ \E q \in BagToSet(inflight') :
                    /\ q.route = "POST /login" /\ q.pc = "redirect"
                    /\ q.state = StateParam[nextFlow']
                    /\ CopiesIn(q, inflight') = 1
        /\ nextFlow' # nextFlow => ~(auth_state' \subseteq auth_state)
        /\ (resp'.route = "POST /login" /\ resp'.status = 302)
           => /\ resp'.state \in {StateParam[i] : i \in 1..nextFlow}
              /\ auth_state' = auth_state
        /\ \A r \in auth_state \ auth_state' :
              \/ listening /\ ~listening'
              \/ /\ auth_state \ auth_state' = {r}
                 /\ r.key \in consumed' \ consumed
                 /\ \E q \in BagToSet(inflight) :
                       q.route = Callback /\ q.pc = "cb_del" /\ q.state = r.key
      ]_vars

\* C21 witness: of two attempts, one has been consumed by its callback and
\* the other is still in flight.
C21_Witness ==
    /\ nextFlow = 2
    /\ StateParam[1] \in consumed
    /\ auth_state = {FlowRow(2)}
    /\ resp.route = Callback /\ resp.state = StateParam[1] /\ resp.status = 302

\* The response of request r was flushed after every write of its
\* Set-Cookie header.
CookieBeforeSend(r) ==
    \A i \in 1..Len(r.order) : r.order[i] = "send" => i = Len(r.order)

\* C22: the cookie is written before the response is sent: a successful
\* callback saves the cookie sealed for the subject and then redirects to
\* /, getSessionAgent destroys the cookie after a failed restore before the
\* handler sends its response, and no handler writes the cookie after its
\* response has been flushed.
C22_CookieBeforeResponse ==
    /\ CookieBeforeSend(resp)
    /\ resp.setCookie <=> (\E i \in 1..Len(resp.order) : resp.order[i] = "set-cookie")
    /\ resp.status # 0 => (resp.order # <<>> /\ resp.order[Len(resp.order)] = "send")
    /\ (resp.route = Callback /\ resp.status = 302)
         => (resp.order = <<"set-cookie", "send">> /\ resp.outCookie = Sealed(resp.sub))
    /\ (resp.route = "GET /" /\ resp.restore \in {"CredentialRestoreError", "InfrastructureError"})
         => (resp.order = <<"set-cookie", "send">> /\ resp.outCookie = NoCookie)
    /\ \A q \in BagToSet(inflight) :
          /\ \A i \in 1..Len(q.order) : q.order[i] # "send"
          /\ q.setCookie <=> q.order # <<>>

\* C22 witness: GET / with the cookie of a logged-in subject, whose
\* credential the provider rejected, was answered with the cookie cleared.
C22_Witness ==
    /\ resp.route = "GET /" /\ resp.restore = "CredentialRestoreError"
    /\ resp.cookie.seal = "ok"
    /\ resp.order = <<"set-cookie", "send">>
    /\ jar = NoCookie

----------------------------------------------------------------------------
(* Claims about the stores under concurrent callers *)

\* The value column of a row of the store's table.
Column(store, r) == IF store = "auth_state" THEN r.state ELSE r.session

\* The rows of t1 and t2 under every key but k are the same.
SameButKey(t1, t2, k) == {r \in t1 : r.key # k} = {r \in t2 : r.key # k}

\* Table t holds exactly one row for key k, with the text of val.
HoldsValue(store, t, k, val) ==
    /\ Cardinality(WhereKey(t, k)) = 1
    /\ \A r \in WhereKey(t, k) : SameObj(JSONparse(Column(store, r)), val)

\* C23: set is one insert-or-update statement: it never fails with a
\* duplicate key, leaves the key with exactly the value written and every
\* other key's record (and the other table) unchanged; del(k) also leaves
\* every other key's record unchanged; so two first-time sets for distinct
\* keys, in either order, end with both keys present with the values
\* written.
C23_SetsForDistinctKeysDoNotInterfere ==
    [][ LET c == log'[3]
            b == log'[2]
            before == TableOf(c.store)
            after == IF c.store = "auth_state" THEN auth_state' ELSE auth_session'
        IN  /\ c.op = "set"
               => /\ c.error = "none"
                  /\ HoldsValue(c.store, after, c.key, c.val)
                  /\ SameButKey(before, after, c.key)
            /\ c.op = "del" => SameButKey(before, after, c.key)
            /\ c.store = "auth_state" => auth_session' = auth_session
            /\ c.store = "auth_session" => auth_state' = auth_state
            /\ (b.op = "set" /\ c.op = "set" /\ b.store = c.store /\ b.key # c.key)
               => /\ b.error = "none"
                  /\ HoldsValue(b.store, after, b.key, b.val)
                  /\ HoldsValue(c.store, after, c.key, c.val)
      ]_vars

\* C23 witness: the first two calls on empty tables were sets of the
\* session store for two different keys.
C23_Witness ==
    /\ log[1] = NoCall
    /\ log[2].op = "set" /\ log[3].op = "set"
    /\ log[2].store = "auth_session" /\ log[3].store = "auth_session"
    /\ log[2].key # log[3].key
    /\ Cardinality(auth_session) = 2

\* C24: get(key) of either store changes no row of either table, whether
\* the key is present or not; it returns the record of a key that is
\* present and nothing (undefined) for a key that is not; and an I/O error
\* of the database is thrown to the caller, not turned into a result.
C24_GetHasNoSideEffects ==
    [][ LET c == log'[3]
        IN  c.op = "get"
            => /\ auth_state' = auth_state
               /\ auth_session' = auth_session
               /\ c.io = "ok"
                  => /\ c.error = "none"
                     /\ c.found <=> WhereKey(TableOf(c.store), c.key) # {}
                     /\ ~c.found => c.ret = <<>>
                     /\ c.found => \A r \in WhereKey(TableOf(c.store), c.key) :
                                      SameObj(c.ret, JSONparse(Column(c.store, r)))
               /\ c.io # "ok" => (c.error = c.io /\ ~c.found)
      ]_vars

\* C24 witness: a get of a missing key returned nothing, then a get of a
\* key that is present failed with the database's I/O error.
C24_Witness ==
    /\ log[2].op = "get" /\ log[2].io = "ok" /\ ~log[2].found
    /\ log[3].op = "get" /\ log[3].io = "SQLITE_IOERR"
    /\ log[3].error = "SQLITE_IOERR"
    /\ WhereKey(TableOf(log[3].store), log[3].key) # {}

----------------------------------------------------------------------------
(* Claims about the cookie and the agent *)

\* C25: the cookie is bound to a subject only by a callback that succeeded
\* for that subject: the only response that sets a sealed cookie is the
\* redirect of a GET /oauth/callback whose callback returned d after d's
\* credential was saved, and the cookie it sets is sealed for d; a failed
\* callback, every POST /login and every other route leave the cookie as
\* it is or clear it.
C25_CookieBoundOnlyByCallback ==
    [][ /\ (resp'.setCookie /\ resp'.outCookie # NoCookie)
           => /\ resp'.route = Callback
              /\ resp'.status = 302
              /\ resp'.error = "none"
              /\ resp'.sub \in completed
              /\ resp'.outCookie = Sealed(resp'.sub)
              /\ HoldsValue("auth_session", auth_session, resp'.sub, lastSet[resp'.sub])
              /\ lastSet[resp'.sub].sub = resp'.sub
        /\ jar' # jar
           => /\ resp'.setCookie
              /\ jar' = resp'.outCookie
        /\ (resp'.route = Callback /\ resp'.status # 302) => jar' = jar
        /\ resp'.route = "POST /login" => jar' = jar
        /\ resp'.route \notin {Callback, "none"} => jar' \in {jar, NoCookie}
      ]_vars

\* C25 witness: the browser bound to d1 completed a callback for d2 and is
\* now bound to d2.
C25_Witness ==
    /\ resp.route = Callback /\ resp.status = 302
    /\ resp.cookie = Sealed("d1")
    /\ resp.sub = "d2"
    /\ jar = Sealed("d2")

\* C26: getSessionAgent gives an agent only to a request whose cookie is
\* sealed for a subject d and for which restore(d) returned a credential in
\* that request, and the agent is d's: never another subject's, whichever
\* subjects have a session record.
C26_AgentIsCookieSubject ==
    /\ resp.agent \in Subjects
         => /\ resp.cookie.seal = "ok"
            /\ resp.cookie.did = resp.agent
            /\ resp.sub = resp.agent
            /\ resp.restore = "credential"
            /\ ~resp.setCookie
    /\ resp.agent \in Subjects \cup {"null", "none"}
    /\ (resp.route = "GET /" /\ resp.status # 0 /\ resp.error = "none")
         => (resp.body = "authenticated" <=> resp.agent \in Subjects)
    /\ \A q \in BagToSet(inflight) :
          /\ q.agent # "none" <=> q.pc \in {"handler", "repo"}
          /\ q.pc = "repo" => q.agent \in Subjects
          /\ q.agent \in Subjects
                => /\ q.cookie.seal = "ok"
                   /\ q.cookie.did = q.agent
                   /\ q.sub = q.agent
                   /\ q.restore = "credential"
                   /\ ~q.setCookie

\* C26 witness: while d1 and d2 both have a session record and the browser
\* is bound to d2, a request with d1's cookie got d1's agent.
C26_Witness ==
    /\ resp.route = "GET /" /\ resp.agent = "d1" /\ resp.cookie = Sealed("d1")
    /\ jar = Sealed("d2")
    /\ WhereKey(auth_session, "d1") # {} /\ WhereKey(auth_session, "d2") # {}

====
